---- MODULE Spec2Model ----
(***************************************************************************)
(* Model of openshift_telemetry_percentage_script.py: the module-level run *)
(* (capacity pagination, usage pagination, final report) and the           *)
(* CloudBoltOpenshiftMetrics aggregation methods.                          *)
(*                                                                         *)
(* Numbers.  Percentages are Python floats rounded to 4 decimals.  They    *)
(* are kept here as integers counting 1/100000 of a percent (Scale per     *)
(* percent), one decimal finer than the rounding, so that round(x, 4) is   *)
(* an operator that really rounds (to a multiple of 10) and not the        *)
(* identity.  Usage and capacity figures are naturals; a unit conversion   *)
(* divides, so a converted usage is the rational usage / divisor.          *)
(***************************************************************************)
EXTENDS Integers, Sequences, FiniteSets, TLC

VARIABLES
    pc,                        \* position of the module-level run
    capacity_map_array,        \* obj.capacity_map_array
    node_id_wise_reponse,      \* obj.node_id_wise_reponse
    capacity_payload,          \* module global capacity_payload (pagination keys)
    payload,                   \* module global payload (pagination keys)
    response,                  \* local `response` of the running pagination loop
    idx,                       \* position of `for result in response['response']`
    final_response,            \* module global final_response: <<>> until bound
    request_json,              \* the json= argument of the latest requests.post
    cap_fetches,               \* history: requests.post calls of save_capacity_data
    usage_fetches,             \* history: requests.post calls of request_openshift_report_api
    cap_end,                   \* history: how the capacity loop ended
    ingested,                  \* history: usage records ingested without error
    todo,                      \* SpecOrder: records still to ingest, first ordering
    alt_todo,                  \* SpecOrder: the same records, second ordering
    alt_pc,                    \* SpecOrder: position of the second run
    alt_node_id_wise_reponse   \* SpecOrder: node records of the second run

vars == <<pc, capacity_map_array, node_id_wise_reponse, capacity_payload, payload,
          response, idx, final_response, request_json, cap_fetches, usage_fetches, cap_end,
          ingested, todo, alt_todo, alt_pc, alt_node_id_wise_reponse>>

-----------------------------------------------------------------------------
(* Bounds of the model *)

MaxPages == 2      \* pages a pagination loop is served at most
MaxPageLen == 3    \* records in one page at most
MaxUsage == 3      \* usage records the server holds at most
MaxOrderLen == 3   \* records ingested in the two-orderings specification

(* Program constants *)

Scale == 100000        \* model units per percent: 5 decimals
Round4Step == 10       \* round(., 4): a multiple of 10 model units
STATUS_OK == 200
MilicoresPerCore == 1000
MbPerGb == 1024
Hundred == 100

FailedStatuses == {401, 500}   \* statuses other than 200

None == "None"         \* Python None
Absent == "absent"     \* a payload key that was never assigned

-----------------------------------------------------------------------------
(* Data the reporting API serves *)

CapRec(n, s, p, cpu, mem) ==
    [node_id |-> n, namespace |-> s, pod_name |-> p,
     node_capacity_cpu |-> cpu, node_capacity_cpu_unit |-> "cores",
     node_capacity_memory |-> mem, node_capacity_memory_unit |-> "GiB"]

UsageRec(n, name, s, p, ucpu, ucpuu, umem, umemu, rcpu, rcpuu, rmem, rmemu) ==
    [node_id |-> n, node_name |-> name, namespace |-> s, pod_name |-> p,
     pod_usage_cpu |-> ucpu, pod_usage_cpu_unit |-> ucpuu,
     pod_usage_memory |-> umem, pod_usage_memory_unit |-> umemu,
     pod_request_cpu |-> rcpu, pod_request_cpu_unit |-> rcpuu,
     pod_request_memory |-> rmem, pod_request_memory_unit |-> rmemu]

\* The capacity data set of the server, served in this order, page by page.
CapData ==
    << CapRec("n1", "s1", "p1", 4, 8),
       CapRec("n1", "s1", "p2", 0, 3),
       CapRec("n1", "s2", "p1", 8, 16),
       CapRec("n2", "s1", "p1", 4, 8) >>

UsageRecords ==
    { UsageRec("n1", "node-a", "s1", "p1", 2000, "milicores", 4096, "MiB",
                                          1000, "milicores", 2048, "MiB"),
      UsageRec("n1", "node-b", "s1", "p2", 500, "milicores", 1, "GiB",
                                          1, "cores", 2048, "MiB"),
      UsageRec("n1", "node-a", "s2", "p1", 2, "cores", 1000, "MiB",
                                          3000, "milicores", 4, "GiB"),
      UsageRec("n2", "node-c", "s1", "p1", 1000, "milicores", 2048, "MiB",
                                          6, "cores", 1024, "MiB") }

\* The page cursors of the server: the token that follows page k
TokenAfter(k) == IF k = 1 THEN "t1" ELSE IF k = 2 THEN "t2" ELSE "t3"
\* The exec_id the server returns with page k
ExecIdOf(k) == IF k % 2 = 1 THEN "e1" ELSE "e2"

SeqUpTo(S, n) == UNION { [1..k -> S] : k \in 0..n }

-----------------------------------------------------------------------------
(* Arithmetic of the percentage calculation *)

\* float(x): a number as the rational num / den
Float(x) == [num |-> x, den |-> 1]

\* num / den rounded to the nearest integer, ties to even (Python round)
RoundHalfEven(num, den) ==
    LET q == num \div den
        r == num % den
    IN  IF 2 * r < den THEN q
        ELSE IF 2 * r > den THEN q + 1
        ELSE IF q % 2 = 0 THEN q ELSE q + 1

\* round(x, 4) of a percentage x = q.num / q.den, in model units; the whole
\* part is taken out first to keep the products small
Round4(q) ==
    LET perPercent == Scale \div Round4Step
    IN  Round4Step * ((q.num \div q.den) * perPercent
                      + RoundHalfEven((q.num % q.den) * perPercent, q.den))

\* __convert_milicores_to_cores
ConvertMilicoresToCores(milicores) ==
    [num |-> milicores.num, den |-> milicores.den * MilicoresPerCore]

\* ConvertMbToGb dividing by 1000
ConvertMbToGb_Decimal(mb) == [num |-> mb.num, den |-> mb.den * MilicoresPerCore]

\* __convert_mb_to_gb
ConvertMbToGb(mb) == [num |-> mb.num, den |-> mb.den * MbPerGb]

\* the two unit tests of __calculate_percentage, in their order
ConvertUsage(actual_usage, actual_usage_unit) ==
    LET a == IF actual_usage_unit = "milicores"
             THEN ConvertMilicoresToCores(actual_usage) ELSE actual_usage
    IN  IF actual_usage_unit = "MiB" THEN ConvertMbToGb(a) ELSE a

\* CalculatePercentage whose except branch reports full use
CalculatePercentage_FullOnZero(capacity, actual_usage, capacity_unit, actual_usage_unit) ==
    LET c == Float(capacity)
        u == ConvertUsage(Float(actual_usage), actual_usage_unit)
    IN  IF c.num = 0 THEN Hundred * Scale
        ELSE Round4([num |-> u.num * c.den * Hundred, den |-> u.den * c.num])

\* CalculatePercentage with the ratio upside down: capacity / usage
CalculatePercentage_Inverted(capacity, actual_usage, capacity_unit, actual_usage_unit) ==
    LET c == Float(capacity)
        u == ConvertUsage(Float(actual_usage), actual_usage_unit)
    IN  IF u.num = 0 THEN 0
        ELSE Round4([num |-> c.num * u.den * Hundred, den |-> c.den * u.num])

\* __calculate_percentage: ZeroDivisionError is caught and gives 0.0
CalculatePercentage(capacity, actual_usage, capacity_unit, actual_usage_unit) ==
    LET c == Float(capacity)
        u == ConvertUsage(Float(actual_usage), actual_usage_unit)
    IN  IF c.num = 0 THEN 0
        ELSE Round4([num |-> u.num * c.den * Hundred, den |-> u.den * c.num])

-----------------------------------------------------------------------------
(* Capacity lookup and the percentage bundle *)

PercentageKeys ==
    <<"cpu_usage_percentage", "memory_usage_percentage",
      "cpu_request_percentage", "memory_request_percentage">>

\* next((x for x in seq if test), None) over the positions that pass the test:
\* the first of them, 0 when there is none
FirstIndex(hits) ==
    IF hits = {} THEN 0 ELSE CHOOSE i \in hits : \A j \in hits : i <= j

\* CapacityLookup with the pod_name test left out
CapacityLookup_NoPod(cap_array, metrics) ==
    FirstIndex({ i \in 1..Len(cap_array) :
                   /\ cap_array[i].node_id = metrics.node_id
                   /\ cap_array[i].namespace = metrics.namespace })

\* the generator of __metric_usage_percentage: 0 stands for None
CapacityLookup(cap_array, metrics) ==
    FirstIndex({ i \in 1..Len(cap_array) :
                   /\ cap_array[i].node_id = metrics.node_id
                   /\ cap_array[i].namespace = metrics.namespace
                   /\ cap_array[i].pod_name = metrics.pod_name })

\* __metric_usage_percentage raises (None is subscripted) when nothing matches
MetricRaises(cap_array, metrics) == CapacityLookup(cap_array, metrics) = 0

\* __metric_usage_percentage, when it returns
MetricUsagePercentage(cap_array, metrics) ==
    LET capacity_details == cap_array[CapacityLookup(cap_array, metrics)]
    IN  [cpu_usage_percentage |->
            CalculatePercentage(capacity_details.node_capacity_cpu,
                metrics.pod_usage_cpu,
                capacity_details.node_capacity_cpu_unit, metrics.pod_usage_cpu_unit),
         memory_usage_percentage |->
            CalculatePercentage(capacity_details.node_capacity_memory,
                metrics.pod_usage_memory,
                capacity_details.node_capacity_memory_unit, metrics.pod_usage_memory_unit),
         cpu_request_percentage |->
            CalculatePercentage(capacity_details.node_capacity_cpu,
                metrics.pod_request_cpu,
                capacity_details.node_capacity_cpu_unit, metrics.pod_request_cpu_unit),
         memory_request_percentage |->
            CalculatePercentage(capacity_details.node_capacity_memory,
                metrics.pod_request_memory,
                capacity_details.node_capacity_memory_unit, metrics.pod_request_memory_unit)]

\* max(list(d.values())) of a bundle
MaxOf(S) == CHOOSE m \in S : \A x \in S : x <= m

BundleValues(details) == { details[PercentageKeys[i]] : i \in 1..Len(PercentageKeys) }

\* __namespace_wise_utilization_dict
NamespaceWiseUtilizationDict(result, usage_percentages) ==
    [namespace |-> result.namespace,
     utilization |-> MaxOf(BundleValues(usage_percentages)),
     utilization_unit |-> "percent",
     node_id |-> result.node_id,
     details |-> usage_percentages]

-----------------------------------------------------------------------------
(* The node-wise aggregation *)

\* FindNode looking at the latest node record only
FindNode_LastOnly(nodes, node_id) ==
    IF nodes # <<>> /\ nodes[Len(nodes)].node_id = node_id THEN Len(nodes) ELSE 0

\* existing_node_record: index of the first node record with this node_id
FindNode(nodes, node_id) ==
    FirstIndex({ i \in 1..Len(nodes) : nodes[i].node_id = node_id })

\* FindNamespace looking at the latest entry only
FindNamespace_LastOnly(utilization_detail, namespace) ==
    IF /\ utilization_detail # <<>>
       /\ utilization_detail[Len(utilization_detail)].namespace = namespace
    THEN Len(utilization_detail) ELSE 0

\* namespace_utilization: index of the first entry with this namespace
FindNamespace(utilization_detail, namespace) ==
    FirstIndex({ i \in 1..Len(utilization_detail) :
                   utilization_detail[i].namespace = namespace })

\* list.remove(x): drops the first element equal to x
RemoveFirst(seq, x) ==
    LET i == FirstIndex({ j \in 1..Len(seq) : seq[j] = x })
    IN  IF i = 0 THEN seq
        ELSE [j \in 1..(Len(seq) - 1) |-> IF j < i THEN seq[j] ELSE seq[j + 1]]

\* dict.pop('node_id', 'key_not_found') on the entry built for this record
PopNodeId(d) ==
    [namespace |-> d.namespace, utilization |-> d.utilization,
     utilization_unit |-> d.utilization_unit, details |-> d.details]

\* dict.get(key, 0)
Get(details, key) == IF key \in DOMAIN details THEN details[key] ELSE 0

\* MergeDetails taking the larger value per key instead of the sum
MergeDetails_Max(old_details, new_details) ==
    [k \in DOMAIN new_details |->
        IF Get(old_details, k) > new_details[k] THEN Get(old_details, k)
        ELSE new_details[k]]

\* MergeDetails keeping the incoming bundle only
MergeDetails_LastWins(old_details, new_details) == new_details

\* percentage_details: per key, round(old + new, 4)
MergeDetails(old_details, new_details) ==
    [cpu_usage_percentage |->
        Round4([num |-> Get(old_details, "cpu_usage_percentage")
                        + Get(new_details, "cpu_usage_percentage"), den |-> Scale]),
     memory_usage_percentage |->
        Round4([num |-> Get(old_details, "memory_usage_percentage")
                        + Get(new_details, "memory_usage_percentage"), den |-> Scale]),
     cpu_request_percentage |->
        Round4([num |-> Get(old_details, "cpu_request_percentage")
                        + Get(new_details, "cpu_request_percentage"), den |-> Scale]),
     memory_request_percentage |->
        Round4([num |-> Get(old_details, "memory_request_percentage")
                        + Get(new_details, "memory_request_percentage"), den |-> Scale])]

\* MergedEntry that keeps the incoming entry's utilization
MergedEntry_StaleUtilization(namespace_utilization, d) ==
    [namespace |-> d.namespace,
     utilization |-> d.utilization,
     utilization_unit |-> "percent",
     details |-> MergeDetails(namespace_utilization.details, d.details)]

\* new_namespace_wise_utilization_dict
MergedEntry(namespace_utilization, d) ==
    LET percentage_details == MergeDetails(namespace_utilization.details, d.details)
    IN  [namespace |-> d.namespace,
         utilization |-> MaxOf(BundleValues(percentage_details)),
         utilization_unit |-> "percent",
         details |-> percentage_details]

\* UpdateUtilizationDetail that overwrites the old entry where it stands
UpdateUtilizationDetail_InPlace(utilization_detail, d) ==
    LET i == FindNamespace(utilization_detail, d.namespace)
    IN  IF i = 0
        THEN Append(utilization_detail, d)
        ELSE [utilization_detail EXCEPT ![i] = MergedEntry(utilization_detail[i], d)]

\* the else branch: the utilization_detail of the existing node record afterwards
UpdateUtilizationDetail(utilization_detail, d) ==
    LET i == FindNamespace(utilization_detail, d.namespace)
    IN  IF i = 0
        THEN Append(utilization_detail, d)
        ELSE Append(RemoveFirst(utilization_detail, utilization_detail[i]),
                    MergedEntry(utilization_detail[i], d))

\* BuildNodeIdWiseResult that takes the node_name of the latest record
BuildNodeIdWiseResult_Rename(nodes, node_id, node_name, namespace_wise_utilization_dict) ==
    LET i == FindNode(nodes, node_id)
        d == PopNodeId(namespace_wise_utilization_dict)
    IN  IF i = 0
        THEN Append(nodes, [node_id |-> node_id, node_name |-> node_name,
                            utilization_detail |-> <<d>>])
        ELSE [nodes EXCEPT ![i].node_name = node_name,
                           ![i].utilization_detail =
                               UpdateUtilizationDetail(nodes[i].utilization_detail, d)]

\* __build_node_id_wise_result: node_id_wise_reponse afterwards
BuildNodeIdWiseResult(nodes, node_id, node_name, namespace_wise_utilization_dict) ==
    LET i == FindNode(nodes, node_id)
        d == PopNodeId(namespace_wise_utilization_dict)
    IN  IF i = 0
        THEN Append(nodes, [node_id |-> node_id, node_name |-> node_name,
                            utilization_detail |-> <<d>>])
        ELSE [nodes EXCEPT ![i].utilization_detail =
                               UpdateUtilizationDetail(nodes[i].utilization_detail, d)]

\* the body of `for result in response['response']` when nothing raises
IngestResult(cap_array, nodes, result) ==
    LET usage_percentages == MetricUsagePercentage(cap_array, result)
        name_space_utilization == NamespaceWiseUtilizationDict(result, usage_percentages)
    IN  BuildNodeIdWiseResult(nodes, result.node_id, result.node_name,
                              name_space_utilization)

-----------------------------------------------------------------------------
(* The run: save_capacity_data, request_openshift_report_api, final_response *)

\* the pagination keys of a query dict as the module defines it (neither is set)
OriginalPayload == [exec_id |-> Absent, next_token |-> Absent]

\* no response is bound (before the first post, after the function returns)
NoResponse == [status |-> 0, response |-> <<>>, next_token |-> None, exec_id |-> None]

\* a response that is not a success: its content is never parsed
FailedResponse(status) ==
    [status |-> status, response |-> <<>>, next_token |-> None, exec_id |-> None]

Min(a, b) == IF a < b THEN a ELSE b

\* the responses the server can give to the n-th post of a loop: a failure, or
\* a page with either no next_token (always so for the last page) or the next cursor
Responses(pages, n) ==
    { FailedResponse(st) : st \in FailedStatuses } \cup
    { [status |-> STATUS_OK, response |-> p, next_token |-> t, exec_id |-> e] :
        p \in pages, e \in {ExecIdOf(n)},
        t \in {None} \cup (IF n < MaxPages THEN {TokenAfter(n)} ELSE {}) }

\* capacity pages: the next records of CapData
CapacityPages ==
    LET from == Len(capacity_map_array) + 1
    IN  { SubSeq(CapData, from, Min(from + k - 1, Len(CapData))) : k \in 0..MaxPageLen }

\* usage pages: any records, while the server holds more
UsagePages == SeqUpTo(UsageRecords, Min(MaxPageLen, MaxUsage - Len(ingested)))

\* NextPayload that forgets the exec_id
NextPayload_TokenOnly(p, resp) == [p EXCEPT !.next_token = resp.next_token]

\* payload['exec_id'] = response['exec_id']; payload['next_token'] = response['next_token']
NextPayload(p, resp) ==
    [p EXCEPT !.exec_id = resp.exec_id, !.next_token = resp.next_token]

\* LoopEnds that breaks after every page
LoopEnds_Always(resp) == TRUE

\* LoopEnds that never breaks
LoopEnds_Never(resp) == FALSE

\* the break tests of the two loops
LoopEnds(resp) == resp.next_token = None

\* AddPage that puts the page in front of the index
AddPage_Prepend(index, records) == records \o index

\* capacity_map_array + response['response']
AddPage(index, records) == index \o records

Init ==
    /\ pc = "save_capacity_data"
    /\ capacity_map_array = <<>>
    /\ node_id_wise_reponse = <<>>
    /\ capacity_payload = OriginalPayload
    /\ payload = OriginalPayload
    /\ response = NoResponse
    /\ idx = 0
    /\ final_response = <<>>
    /\ request_json = OriginalPayload
    /\ cap_fetches = 0
    /\ usage_fetches = 0
    /\ cap_end = "running"
    /\ ingested = <<>>
    /\ todo = <<>>
    /\ alt_todo = <<>>
    /\ alt_pc = "idle"
    /\ alt_node_id_wise_reponse = <<>>

orderVars == <<todo, alt_todo, alt_pc, alt_node_id_wise_reponse>>

\* save_capacity_data, line 32: requests.post
SaveCapacityPost ==
    /\ pc = "save_capacity_data"
    /\ cap_fetches < MaxPages   \* counter cap; the server ends the paging by then
    /\ \E resp \in Responses(CapacityPages, cap_fetches + 1) : response' = resp
    /\ request_json' = capacity_payload
    /\ cap_fetches' = cap_fetches + 1
    /\ pc' = "capacity_response"
    /\ UNCHANGED <<capacity_map_array, node_id_wise_reponse, capacity_payload, payload,
                   idx, final_response, usage_fetches, cap_end, ingested, orderVars>>

\* save_capacity_data, lines 33-39: status 200
SaveCapacityOk ==
    /\ pc = "capacity_response"
    /\ response.status = STATUS_OK
    /\ capacity_map_array' = AddPage(capacity_map_array, response.response)
    /\ cap_end' = IF response.next_token = None THEN "complete" ELSE cap_end
    /\ IF LoopEnds(response)
       THEN /\ pc' = "request_openshift_report_api"
            /\ response' = NoResponse
            /\ request_json' = OriginalPayload
            /\ UNCHANGED capacity_payload
       ELSE /\ capacity_payload' = NextPayload(capacity_payload, response)
            /\ pc' = "save_capacity_data"
            /\ UNCHANGED <<response, request_json>>
    /\ UNCHANGED <<node_id_wise_reponse, payload, idx, final_response,
                   cap_fetches, usage_fetches, ingested, orderVars>>

\* save_capacity_data, lines 40-42: any other status
SaveCapacityElse ==
    /\ pc = "capacity_response"
    /\ response.status # STATUS_OK
    /\ pc' = "request_openshift_report_api"
    /\ cap_end' = "failed"
    /\ response' = NoResponse
    /\ request_json' = OriginalPayload
    /\ UNCHANGED <<capacity_map_array, node_id_wise_reponse, capacity_payload, payload,
                   idx, final_response, cap_fetches, usage_fetches, ingested, orderVars>>

\* request_openshift_report_api, line 47: requests.post
ReportPost ==
    /\ pc = "request_openshift_report_api"
    /\ usage_fetches < MaxPages   \* counter cap; the server ends the paging by then
    /\ \E resp \in Responses(UsagePages, usage_fetches + 1) : response' = resp
    /\ request_json' = payload
    /\ usage_fetches' = usage_fetches + 1
    /\ pc' = "usage_response"
    /\ UNCHANGED <<capacity_map_array, node_id_wise_reponse, capacity_payload, payload,
                   idx, final_response, cap_fetches, cap_end, ingested, orderVars>>

\* request_openshift_report_api, lines 49-54: status 200, the for loop starts
ReportOk ==
    /\ pc = "usage_response"
    /\ response.status = STATUS_OK
    /\ idx' = 1
    /\ pc' = "for_result"
    /\ UNCHANGED <<capacity_map_array, node_id_wise_reponse, capacity_payload, payload,
                   response, final_response, request_json, cap_fetches, usage_fetches,
                   cap_end, ingested, orderVars>>

\* request_openshift_report_api, lines 63-65: any other status
ReportElse ==
    /\ pc = "usage_response"
    /\ response.status # STATUS_OK
    /\ pc' = "final_response"
    /\ response' = NoResponse
    /\ request_json' = OriginalPayload
    /\ UNCHANGED <<capacity_map_array, node_id_wise_reponse, capacity_payload, payload,
                   idx, final_response, cap_fetches, usage_fetches, cap_end, ingested,
                   orderVars>>

\* lines 54-58: one iteration of the for loop; an unmatched record raises
\* TypeError, which nothing catches
ForResult ==
    /\ pc = "for_result"
    /\ idx <= Len(response.response)
    /\ LET result == response.response[idx]
       IN  IF MetricRaises(capacity_map_array, result)
           THEN /\ pc' = "raised"
                /\ UNCHANGED <<node_id_wise_reponse, idx, ingested>>
           ELSE /\ node_id_wise_reponse' =
                       IngestResult(capacity_map_array, node_id_wise_reponse, result)
                /\ idx' = idx + 1
                /\ ingested' = Append(ingested, result)
                /\ UNCHANGED pc
    /\ UNCHANGED <<capacity_map_array, capacity_payload, payload, response,
                   final_response, request_json, cap_fetches, usage_fetches, cap_end,
                   orderVars>>

\* lines 59-62: the for loop is exhausted
ForDone ==
    /\ pc = "for_result"
    /\ idx > Len(response.response)
    /\ IF LoopEnds(response)
       THEN /\ pc' = "final_response"
            /\ response' = NoResponse
            /\ request_json' = OriginalPayload
            /\ UNCHANGED payload
       ELSE /\ payload' = NextPayload(payload, response)
            /\ pc' = "request_openshift_report_api"
            /\ UNCHANGED <<response, request_json>>
    /\ idx' = 0
    /\ UNCHANGED <<capacity_map_array, node_id_wise_reponse, capacity_payload,
                   final_response, cap_fetches, usage_fetches, cap_end, ingested,
                   orderVars>>

\* lines 181-184: final_response refers to the payload dict itself
BuildFinalResponse ==
    /\ pc = "final_response"
    /\ final_response' = <<[request_payload |-> payload,
                            response |-> node_id_wise_reponse]>>
    /\ pc' = "done"
    /\ UNCHANGED <<capacity_map_array, node_id_wise_reponse, capacity_payload, payload,
                   response, idx, request_json, cap_fetches, usage_fetches, cap_end,
                   ingested, orderVars>>

Next ==
    \/ SaveCapacityPost
    \/ SaveCapacityOk
    \/ SaveCapacityElse
    \/ ReportPost
    \/ ReportOk
    \/ ReportElse
    \/ ForResult
    \/ ForDone
    \/ BuildFinalResponse

Spec == Init /\ [][Next]_vars

\* ENABLED <<ForResult>>_vars: the for loop has a record left (either branch of
\* ForResult then changes pc or idx)
ForResultEnabled == pc = "for_result" /\ idx <= Len(response.response)

\* <<ReportPost>>_vars: the one step taken from the head of the usage loop
ReportPostStep == pc = "request_openshift_report_api" /\ pc' = "usage_response"

\* the steps of the run other than the usage fetch and the for loop's body
OtherSteps ==
    \/ SaveCapacityPost \/ SaveCapacityOk \/ SaveCapacityElse
    \/ ReportOk \/ ReportElse \/ ForDone \/ BuildFinalResponse

\* the run as a sequential program: a step that can be taken is taken (the
\* posts block until answered). The last two conjuncts are WF_vars(ReportPost)
\* and WF_vars(ForResult) written out as []<>~ENABLED \/ []<>step.
SpecLive ==
    /\ Init /\ [][Next]_vars
    /\ WF_vars(OtherSteps)
    /\ ([]<>(~ENABLED ReportPost) \/ []<><<ReportPostStep>>_vars)
    /\ ([]<>(~ForResultEnabled) \/ []<><<ForResult>>_vars)

-----------------------------------------------------------------------------
(* Two orderings of the same usage records, ingested side by side: the     *)
(* for-loop body of request_openshift_report_api applied to two            *)
(* aggregators over one capacity index.                                    *)

Orderings(t) ==
    { [i \in 1..Len(t) |-> t[f[i]]] : f \in Permutations(1..Len(t)) }

\* capacity indexes of the two-orderings runs: all of CapData, or all but its last record
OrderCapacities == { CapData, SubSeq(CapData, 1, Len(CapData) - 1) }

InitOrder ==
    /\ pc = "for_result"
    /\ alt_pc = "for_result"
    /\ capacity_map_array \in OrderCapacities
    /\ todo \in SeqUpTo(UsageRecords, MaxOrderLen)
    /\ alt_todo \in Orderings(todo)
    /\ node_id_wise_reponse = <<>>
    /\ alt_node_id_wise_reponse = <<>>
    /\ capacity_payload = OriginalPayload
    /\ payload = OriginalPayload
    /\ response = NoResponse
    /\ idx = 0
    /\ final_response = <<>>
    /\ request_json = OriginalPayload
    /\ cap_fetches = 0
    /\ usage_fetches = 0
    /\ cap_end = "complete"
    /\ ingested = <<>>

runVars == <<capacity_map_array, capacity_payload, payload, response, idx,
             final_response, request_json, cap_fetches, usage_fetches, cap_end>>

\* lines 54-58 on the next record of the first ordering
OrderIngest ==
    /\ pc = "for_result"
    /\ todo # <<>>
    /\ IF MetricRaises(capacity_map_array, Head(todo))
       THEN /\ pc' = "raised"
            /\ UNCHANGED <<node_id_wise_reponse, todo, ingested>>
       ELSE /\ node_id_wise_reponse' =
                   IngestResult(capacity_map_array, node_id_wise_reponse, Head(todo))
            /\ todo' = Tail(todo)
            /\ ingested' = Append(ingested, Head(todo))
            /\ UNCHANGED pc
    /\ UNCHANGED <<runVars, alt_todo, alt_pc, alt_node_id_wise_reponse>>

\* lines 54-58 on the next record of the second ordering
AltIngest ==
    /\ alt_pc = "for_result"
    /\ alt_todo # <<>>
    /\ IF MetricRaises(capacity_map_array, Head(alt_todo))
       THEN /\ alt_pc' = "raised"
            /\ UNCHANGED <<alt_node_id_wise_reponse, alt_todo>>
       ELSE /\ alt_node_id_wise_reponse' =
                   IngestResult(capacity_map_array, alt_node_id_wise_reponse,
                                Head(alt_todo))
            /\ alt_todo' = Tail(alt_todo)
            /\ UNCHANGED alt_pc
    /\ UNCHANGED <<runVars, pc, node_id_wise_reponse, todo, ingested>>

NextOrder == OrderIngest \/ AltIngest

SpecOrder == InitOrder /\ [][NextOrder]_vars

-----------------------------------------------------------------------------
(* One usage record against one capacity record: the for-loop body and the *)
(* end of the run, from a state in which the inputs of the percentage      *)
(* calculation are drawn from small sets.                                  *)

\* usage figures with their unit tag
CpuQuantities ==
    { <<0, "cores">>, <<2, "cores">>, <<3, "cores">>, <<0, "milicores">>,
      <<1000, "milicores">>, <<1001, "milicores">>, <<2000, "milicores">>,
      <<2048, "MiB">> }

MemQuantities ==
    { <<3, "GiB">>, <<4, "GiB">>, <<0, "MiB">>, <<2048, "MiB">>, <<4096, "MiB">>,
      <<4097, "MiB">> }

CpuCapacities == {0, 4}
MemCapacities == {0, 3, 8}

InitCalc ==
    /\ pc = "for_result"
    /\ \E cpu \in CpuCapacities, mem \in MemCapacities :
          capacity_map_array = << CapRec("n1", "s1", "p1", cpu, mem) >>
    /\ \E uc \in CpuQuantities, rc \in CpuQuantities,
          um \in MemQuantities, rm \in MemQuantities :
          response = [status |-> STATUS_OK,
                      response |-> << UsageRec("n1", "node-a", "s1", "p1",
                                               uc[1], uc[2], um[1], um[2],
                                               rc[1], rc[2], rm[1], rm[2]) >>,
                      next_token |-> None, exec_id |-> ExecIdOf(1)]
    /\ idx = 1
    /\ node_id_wise_reponse = <<>>
    /\ capacity_payload = OriginalPayload
    /\ payload = OriginalPayload
    /\ final_response = <<>>
    /\ request_json = OriginalPayload
    /\ cap_fetches = 1
    /\ usage_fetches = 1
    /\ cap_end = "complete"
    /\ ingested = <<>>
    /\ todo = <<>>
    /\ alt_todo = <<>>
    /\ alt_pc = "idle"
    /\ alt_node_id_wise_reponse = <<>>

NextCalc == ForResult \/ ForDone \/ BuildFinalResponse

SpecCalc == InitCalc /\ [][NextCalc]_vars

-----------------------------------------------------------------------------
(* Properties of the aggregation *)

\* the positions of a utilization_detail / of the history with a given key
IngestedFor(node_id, namespace) ==
    { i \in 1..Len(ingested) : /\ ingested[i].node_id = node_id
                               /\ ingested[i].namespace = namespace }

RECURSIVE SumOfBundles(_)
\* the per-key sum of the percentage bundles, each as computed on ingest, of
\* the history records at the positions S
SumOfBundles(S) ==
    IF S = {} THEN [k \in { PercentageKeys[j] : j \in 1..Len(PercentageKeys) } |-> 0]
    ELSE LET i == CHOOSE x \in S : TRUE
             b == MetricUsagePercentage(capacity_map_array, ingested[i])
             rest == SumOfBundles(S \ {i})
         IN  [k \in DOMAIN rest |-> b[k] + rest[k]]

RECURSIVE FirstSeen(_)
\* the distinct values of a sequence in the order of their first occurrence
FirstSeen(seq) ==
    IF seq = <<>> THEN <<>>
    ELSE LET front == FirstSeen(SubSeq(seq, 1, Len(seq) - 1))
             last == seq[Len(seq)]
         IN  IF \E i \in 1..Len(front) : front[i] = last THEN front
             ELSE Append(front, last)

\* the entries of a list of node records, without their order
EntriesOf(nodes) ==
    UNION { { [node_id |-> nodes[n].node_id,
               namespace |-> nodes[n].utilization_detail[e].namespace,
               utilization |-> nodes[n].utilization_detail[e].utilization,
               details |-> nodes[n].utilization_detail[e].details] :
                e \in 1..Len(nodes[n].utilization_detail) } : n \in 1..Len(nodes) }

\* C1: after any sequence of ingests, a node record's utilization_detail never
\* holds two entries with the same namespace.
C1_OneEntryPerNamespace ==
    \A n \in 1..Len(node_id_wise_reponse) :
        LET ud == node_id_wise_reponse[n].utilization_detail
        IN  \A i, j \in 1..Len(ud) : ud[i].namespace = ud[j].namespace => i = j

\* C1 witness: a node record with entries for two namespaces, one of them
\* observed again after the other was added (three ingests for the node).
C1_Witness ==
    \E n \in 1..Len(node_id_wise_reponse) :
        LET rec == node_id_wise_reponse[n]
        IN  /\ Len(rec.utilization_detail) = 2
            /\ \E i, j, k \in 1..Len(ingested) :
                /\ i < j /\ j < k
                /\ ingested[i].node_id = rec.node_id
                /\ ingested[j].node_id = rec.node_id
                /\ ingested[k].node_id = rec.node_id
                /\ ingested[i].namespace = ingested[k].namespace
                /\ ingested[i].namespace # ingested[j].namespace

\* the node_ids of the history
IngestedNodeIds == [i \in 1..Len(ingested) |-> ingested[i].node_id]

\* C2: node_id_wise_reponse holds exactly one node record per node_id ingested
\* so far, in the order in which the node_ids were first observed.
C2_NodeRecordsUniqueInOrder ==
    /\ [n \in 1..Len(node_id_wise_reponse) |-> node_id_wise_reponse[n].node_id]
         = FirstSeen(IngestedNodeIds)
    /\ \A m, n \in 1..Len(node_id_wise_reponse) :
         node_id_wise_reponse[m].node_id = node_id_wise_reponse[n].node_id => m = n

\* C2 witness: two node records, the first node observed again after the second
\* node's record was created.
C2_Witness ==
    /\ Len(node_id_wise_reponse) = 2
    /\ Len(ingested) >= 3
    /\ ingested[Len(ingested)].node_id = node_id_wise_reponse[1].node_id
    /\ ingested[Len(ingested) - 1].node_id = node_id_wise_reponse[2].node_id

\* C3: each of the four percentage fields of a (node, namespace) entry is the
\* sum of that field's per-record percentage over all ingested records of that
\* node and namespace (a record ingested twice counts twice), and every
\* ingested (node, namespace) has an entry.
C3_FieldsAreSums ==
    /\ \A n \in 1..Len(node_id_wise_reponse) :
         LET rec == node_id_wise_reponse[n]
         IN  \A e \in 1..Len(rec.utilization_detail) :
               LET sums == SumOfBundles(IngestedFor(rec.node_id,
                                           rec.utilization_detail[e].namespace))
               IN  \A k \in 1..Len(PercentageKeys) :
                     rec.utilization_detail[e].details[PercentageKeys[k]]
                       = sums[PercentageKeys[k]]
    /\ \A i \in 1..Len(ingested) :
         \E n \in 1..Len(node_id_wise_reponse) :
            /\ node_id_wise_reponse[n].node_id = ingested[i].node_id
            /\ \E e \in 1..Len(node_id_wise_reponse[n].utilization_detail) :
                  node_id_wise_reponse[n].utilization_detail[e].namespace
                    = ingested[i].namespace

\* C3 witness: the identical record ingested twice, its entry holding twice its
\* (non-zero) percentage.
C3_Witness ==
    /\ Len(ingested) = 2
    /\ ingested[1] = ingested[2]
    /\ \E ent \in EntriesOf(node_id_wise_reponse) :
         /\ ent.details.memory_usage_percentage > 0
         /\ ent.details.memory_usage_percentage
              = 2 * MetricUsagePercentage(capacity_map_array,
                                          ingested[1]).memory_usage_percentage

\* C5: every namespace utilization entry, first inserted or merged, has
\* utilization equal to the maximum of its own four details values and
\* utilization_unit "percent".
C5_UtilizationIsMax ==
    \A n \in 1..Len(node_id_wise_reponse) :
        LET ud == node_id_wise_reponse[n].utilization_detail
        IN  \A e \in 1..Len(ud) :
              /\ DOMAIN ud[e].details = { PercentageKeys[k] : k \in 1..Len(PercentageKeys) }
              /\ \A k \in 1..Len(PercentageKeys) :
                    ud[e].details[PercentageKeys[k]] <= ud[e].utilization
              /\ \E k \in 1..Len(PercentageKeys) :
                    ud[e].details[PercentageKeys[k]] = ud[e].utilization
              /\ ud[e].utilization_unit = "percent"

\* C5 witness: a merged entry whose maximum moved to another field than the one
\* that was the maximum of the record merged last, next to a first-inserted entry.
C5_Witness ==
    /\ Len(ingested) = 3
    /\ \E n \in 1..Len(node_id_wise_reponse) :
         LET ud == node_id_wise_reponse[n].utilization_detail
             last == MetricUsagePercentage(capacity_map_array, ingested[3])
         IN  /\ Len(ud) = 2
             /\ ud[2].namespace = ingested[3].namespace
             /\ ud[2].namespace = ingested[1].namespace
             /\ ud[2].utilization > MaxOf(BundleValues(last))

\* C4: two orderings of the same usage records, each ingested completely,
\* give the same details bundle and utilization for every (node, namespace).
C4_OrderIndependent ==
    (todo = <<>> /\ alt_todo = <<>>)
        => EntriesOf(node_id_wise_reponse) = EntriesOf(alt_node_id_wise_reponse)

\* C4 witness: both orderings are ingested, they differed (the node records
\* came out in different list order) and an entry was merged.
C4_Witness ==
    /\ todo = <<>> /\ alt_todo = <<>>
    /\ node_id_wise_reponse # alt_node_id_wise_reponse
    /\ Len(ingested) > Cardinality(EntriesOf(node_id_wise_reponse))
    /\ Cardinality(EntriesOf(node_id_wise_reponse)) > 1

-----------------------------------------------------------------------------
(* Properties of the run *)

CapacityPositions == {"save_capacity_data", "capacity_response"}
UsagePositions == {"request_openshift_report_api", "usage_response", "for_result"}

\* usage ingestion has begun: a usage page was asked for or a record ingested
UsageBegun == usage_fetches > 0 \/ ingested # <<>> \/ node_id_wise_reponse # <<>>

\* C6 as claimed: no usage page is fetched and no usage record is ingested
\* until the capacity page whose next_token is null has been added to the
\* capacity index.
C6_CapacityCompleteBeforeUsage ==
    (UsageBegun \/ pc \in UsagePositions) => cap_end = "complete"

\* C6 as amended: no usage page is fetched and no usage record is ingested
\* until the capacity loop has ended, by the page whose next_token is null
\* or by a failed capacity fetch; no capacity page is fetched afterwards.
C6_CapacityLoopEndsBeforeUsage ==
    /\ pc \in CapacityPositions => ~UsageBegun /\ cap_end = "running"
    /\ pc \notin CapacityPositions => cap_end \in {"complete", "failed"}

\* C6 witness: usage records ingested after the capacity loop was ended by a
\* failed fetch that followed a page with a next_token.
C6_Witness ==
    /\ cap_end = "failed"
    /\ cap_fetches = 2
    /\ capacity_map_array # <<>>
    /\ ingested # <<>>

\* the pagination keys a request must carry: none before the first response,
\* afterwards those of the response before it
Carried(fetches, resp) ==
    IF fetches = 0 THEN OriginalPayload
    ELSE [exec_id |-> resp.exec_id, next_token |-> resp.next_token]

\* C7: in both loops a page with next_token null ends the loop once its records
\* are incorporated and no fetch follows; a page with a next_token leads to
\* exactly one further fetch, whose request carries that page's next_token and
\* exec_id.
C7_Pagination ==
    [][ /\ (pc = "capacity_response" /\ response.status = STATUS_OK) =>
              /\ capacity_map_array' = capacity_map_array \o response.response
              /\ pc' = IF response.next_token = None
                       THEN "request_openshift_report_api" ELSE "save_capacity_data"
        /\ (pc = "for_result" /\ idx > Len(response.response)) =>
              pc' = IF response.next_token = None
                    THEN "final_response" ELSE "request_openshift_report_api"
        /\ pc = "save_capacity_data" =>
              /\ cap_fetches' = cap_fetches + 1
              /\ request_json' = Carried(cap_fetches, response)
              /\ pc' = "capacity_response"
        /\ pc = "request_openshift_report_api" =>
              /\ usage_fetches' = usage_fetches + 1
              /\ request_json' = Carried(usage_fetches, response)
              /\ pc' = "usage_response"
        /\ pc # "save_capacity_data" => cap_fetches' = cap_fetches
        /\ pc # "request_openshift_report_api" => usage_fetches' = usage_fetches
        /\ pc \notin CapacityPositions => pc' \notin CapacityPositions
        /\ pc \notin CapacityPositions \cup UsagePositions
              => pc' \notin CapacityPositions \cup UsagePositions
      ]_vars

\* C7 witness: the second usage request has been sent, carrying the first
\* page's cursor, after a capacity loop of two pages.
C7_Witness ==
    /\ pc = "usage_response"
    /\ usage_fetches = 2
    /\ request_json.next_token = TokenAfter(1)
    /\ request_json.exec_id = ExecIdOf(1)
    /\ cap_fetches = 2
    /\ cap_end = "complete"

\* C8: a failed page fetch is not fatal to the run: the run that had one still
\* comes to build the final report and never ends in an uncaught error.
C8_FailureNotFatal == cap_end = "failed" => pc # "raised"

\* C8, the part that holds: a failed fetch halts its loop without another fetch
\* and leaves everything accumulated as it is.
C8_FailureHaltsLoop ==
    [][ (pc \in {"capacity_response", "usage_response"} /\ response.status # STATUS_OK) =>
            /\ pc' = IF pc = "capacity_response"
                     THEN "request_openshift_report_api" ELSE "final_response"
            /\ UNCHANGED <<capacity_map_array, node_id_wise_reponse, capacity_payload,
                           payload, cap_fetches, usage_fetches, final_response>>
      ]_vars

\* a usage record that no capacity record matches on node_id, namespace and pod_name
Orphan(metrics) ==
    ~ \E i \in 1..Len(capacity_map_array) :
        /\ capacity_map_array[i].node_id = metrics.node_id
        /\ capacity_map_array[i].namespace = metrics.namespace
        /\ capacity_map_array[i].pod_name = metrics.pod_name

\* C9: a usage record without a matching capacity record raises and aborts the
\* run: it adds nothing to the node records, no later record is ingested, no
\* further usage page is fetched and no final report is built.
C9_OrphanAborts ==
    /\ [](pc = "raised" => final_response = <<>>)
    /\ [][ /\ (/\ pc = "for_result"
               /\ idx <= Len(response.response)
               /\ Orphan(response.response[idx])) =>
                  /\ pc' = "raised"
                  /\ UNCHANGED <<node_id_wise_reponse, ingested, usage_fetches,
                                 final_response>>
           /\ pc = "raised" => UNCHANGED vars
         ]_vars

\* C9 witness: the run has raised on a record that is not the last of its page,
\* after records were ingested, the page announcing a further page.
C9_Witness ==
    /\ pc = "raised"
    /\ cap_end = "complete"
    /\ ingested # <<>>
    /\ idx < Len(response.response)
    /\ response.next_token # None

\* C10: the request_payload of the final report is the usage query as it was
\* before the first usage page was fetched.
C10_RequestPayloadOriginal ==
    pc = "done" => final_response[1].request_payload = OriginalPayload

-----------------------------------------------------------------------------
(* Properties of the percentage calculation *)

\* the bundle stored for the first record ingested
FirstDetails == node_id_wise_reponse[1].utilization_detail[1].details

\* the capacity record that the first record ingested was matched with
FirstCapacity ==
    LET hits == { i \in 1..Len(capacity_map_array) :
                    /\ capacity_map_array[i].node_id = ingested[1].node_id
                    /\ capacity_map_array[i].namespace = ingested[1].namespace
                    /\ capacity_map_array[i].pod_name = ingested[1].pod_name }
    IN  capacity_map_array[CHOOSE i \in hits : \A j \in hits : i <= j]

\* C11: with a capacity of zero the percentage is exactly 0.0 for every usage
\* figure and unit, and nothing is raised: the record is ingested and the run
\* goes on to the report.
C11_ZeroCapacityGivesZero ==
    /\ pc # "raised"
    /\ ingested # <<>> =>
         /\ FirstCapacity.node_capacity_cpu = 0 =>
               /\ FirstDetails.cpu_usage_percentage = 0
               /\ FirstDetails.cpu_request_percentage = 0
         /\ FirstCapacity.node_capacity_memory = 0 =>
               /\ FirstDetails.memory_usage_percentage = 0
               /\ FirstDetails.memory_request_percentage = 0

\* C11 witness: the run is done after a record with non-zero figures was
\* ingested against zero CPU and zero memory capacity; its entry reports 0.
C11_Witness ==
    /\ pc = "done"
    /\ Len(ingested) = 1
    /\ FirstCapacity.node_capacity_cpu = 0
    /\ FirstCapacity.node_capacity_memory = 0
    /\ ingested[1].pod_usage_cpu > 0
    /\ ingested[1].pod_usage_cpu_unit = "milicores"
    /\ ingested[1].pod_request_memory > 0
    /\ ingested[1].pod_request_memory_unit = "MiB"
    /\ final_response[1].response[1].utilization_detail[1].utilization = 0

\* what a usage figure is divided by, by its unit tag
Divisor(unit) ==
    IF unit = "milicores" THEN MilicoresPerCore
    ELSE IF unit = "MiB" THEN MbPerGb
    ELSE 1

Abs(x) == IF x < 0 THEN 0 - x ELSE x

\* p (model units) is usage / div / capacity * 100 to 4 decimals: a multiple of
\* the rounding step no further than half a step from the exact ratio
IsPercentageOf(p, usage, div, capacity) ==
    LET perPercent == Scale \div Round4Step
        d == div * capacity
        whole == (usage * Hundred) \div d
        rest == (usage * Hundred) % d
        n == (p \div Round4Step) - whole * perPercent
    IN  /\ p % Round4Step = 0
        /\ 2 * Abs(n * d - rest * perPercent) <= d

\* C12: each of the four metrics is its usage figure, divided by 1000 when
\* tagged milicores, by 1024 when tagged MiB and unchanged otherwise, over the
\* matched record's CPU capacity (CPU metrics) or memory capacity (memory
\* metrics), times 100, to 4 decimals.
C12_UnitsNormalized ==
    ingested # <<>> =>
        LET r == ingested[1]
            c == FirstCapacity
        IN  /\ c.node_capacity_cpu > 0 =>
                 /\ IsPercentageOf(FirstDetails.cpu_usage_percentage, r.pod_usage_cpu,
                        Divisor(r.pod_usage_cpu_unit), c.node_capacity_cpu)
                 /\ IsPercentageOf(FirstDetails.cpu_request_percentage, r.pod_request_cpu,
                        Divisor(r.pod_request_cpu_unit), c.node_capacity_cpu)
            /\ c.node_capacity_memory > 0 =>
                 /\ IsPercentageOf(FirstDetails.memory_usage_percentage,
                        r.pod_usage_memory,
                        Divisor(r.pod_usage_memory_unit), c.node_capacity_memory)
                 /\ IsPercentageOf(FirstDetails.memory_request_percentage,
                        r.pod_request_memory,
                        Divisor(r.pod_request_memory_unit), c.node_capacity_memory)

\* C12 witness: capacity cpu 4 / memory 8, usage 2000 milicores and 4096 MiB,
\* requests 1000 milicores and 2048 MiB: the bundle is 50, 50, 25, 25.
C12_Witness ==
    /\ Len(ingested) = 1
    /\ FirstCapacity.node_capacity_cpu = 4
    /\ FirstCapacity.node_capacity_memory = 8
    /\ ingested[1].pod_usage_cpu = 2000 /\ ingested[1].pod_usage_cpu_unit = "milicores"
    /\ ingested[1].pod_usage_memory = 4096 /\ ingested[1].pod_usage_memory_unit = "MiB"
    /\ ingested[1].pod_request_cpu = 1000 /\ ingested[1].pod_request_cpu_unit = "milicores"
    /\ ingested[1].pod_request_memory = 2048
    /\ ingested[1].pod_request_memory_unit = "MiB"
    /\ FirstDetails = [cpu_usage_percentage |-> 50 * Scale,
                       memory_usage_percentage |-> 50 * Scale,
                       cpu_request_percentage |-> 25 * Scale,
                       memory_request_percentage |-> 25 * Scale]
    /\ node_id_wise_reponse[1].utilization_detail[1].utilization = 50 * Scale

\* C13: against one capacity > 0 and under one unit, the smaller usage figure
\* never gets the larger percentage (the usage and the request of a record are
\* two calculations against the same capacity).
C13_Monotonic ==
    ingested # <<>> =>
        LET r == ingested[1]
            c == FirstCapacity
        IN  /\ ( /\ c.node_capacity_cpu > 0
                 /\ r.pod_usage_cpu_unit = r.pod_request_cpu_unit
                 /\ r.pod_usage_cpu <= r.pod_request_cpu )
               => FirstDetails.cpu_usage_percentage <= FirstDetails.cpu_request_percentage
            /\ ( /\ c.node_capacity_cpu > 0
                 /\ r.pod_usage_cpu_unit = r.pod_request_cpu_unit
                 /\ r.pod_request_cpu <= r.pod_usage_cpu )
               => FirstDetails.cpu_request_percentage <= FirstDetails.cpu_usage_percentage
            /\ ( /\ c.node_capacity_memory > 0
                 /\ r.pod_usage_memory_unit = r.pod_request_memory_unit
                 /\ r.pod_usage_memory <= r.pod_request_memory )
               => FirstDetails.memory_usage_percentage
                    <= FirstDetails.memory_request_percentage
            /\ ( /\ c.node_capacity_memory > 0
                 /\ r.pod_usage_memory_unit = r.pod_request_memory_unit
                 /\ r.pod_request_memory <= r.pod_usage_memory )
               => FirstDetails.memory_request_percentage
                    <= FirstDetails.memory_usage_percentage

\* C13 witness: two figures one milicore apart, 1000 and 1001, against a CPU
\* capacity of 4: the percentages differ and are in the same order.
C13_Witness ==
    /\ Len(ingested) = 1
    /\ FirstCapacity.node_capacity_cpu = 4
    /\ ingested[1].pod_usage_cpu = 1000 /\ ingested[1].pod_usage_cpu_unit = "milicores"
    /\ ingested[1].pod_request_cpu = 1001
    /\ ingested[1].pod_request_cpu_unit = "milicores"
    /\ FirstDetails.cpu_usage_percentage < FirstDetails.cpu_request_percentage

-----------------------------------------------------------------------------
(* Frame properties of an ingest *)

\* the entries of a utilization_detail for namespaces other than s, in order
OtherNamespaces(utilization_detail, s) ==
    LET Other(e) == e.namespace # s
    IN  SelectSeq(utilization_detail, Other)

\* the utilization_detail held for node_id in nodes, empty if there is no record
DetailOf(nodes, node_id) ==
    LET hits == { i \in 1..Len(nodes) : nodes[i].node_id = node_id }
    IN  IF hits = {} THEN <<>>
        ELSE nodes[CHOOSE i \in hits : \A j \in hits : i <= j].utilization_detail

\* C14: ingesting a record for node n and namespace s leaves every other node
\* record as and where it was, keeps the entries of n for other namespaces in
\* content and relative order, and puts the (n, s) entry, new or merged, at the
\* end of n's utilization_detail, the old (n, s) entry being gone.
C14_IngestFrame ==
    [][ ingested' # ingested =>
          LET r == ingested'[Len(ingested')]
              n == r.node_id
              s == r.namespace
              old == node_id_wise_reponse
              new == node_id_wise_reponse'
              old_ud == DetailOf(old, n)
              new_ud == DetailOf(new, n)
          IN  /\ Len(new) >= Len(old)
              /\ \A i \in 1..Len(old) :
                    /\ new[i].node_id = old[i].node_id
                    /\ old[i].node_id # n => new[i] = old[i]
              /\ \A i \in (Len(old) + 1)..Len(new) : new[i].node_id = n
              /\ new_ud # <<>>
              /\ new_ud[Len(new_ud)].namespace = s
              /\ new_ud = Append(OtherNamespaces(old_ud, s), new_ud[Len(new_ud)])
              /\ (\A i \in 1..Len(old_ud) : old_ud[i].namespace # s) =>
                    new_ud = Append(old_ud, new_ud[Len(new_ud)])
      ]_vars

\* C14 witness: on one node, namespace s1 was observed, then s2, then s1 again:
\* the merged s1 entry stands after the untouched s2 entry.
C14_Witness ==
    /\ Len(ingested) = 3
    /\ \A i \in 1..3 : ingested[i].node_id = "n1"
    /\ ingested[1].namespace = "s1"
    /\ ingested[2].namespace = "s2"
    /\ ingested[3].namespace = "s1"
    /\ Len(node_id_wise_reponse) = 1
    /\ LET ud == node_id_wise_reponse[1].utilization_detail
       IN  /\ Len(ud) = 2
           /\ ud[1].namespace = "s2"
           /\ ud[1].details = MetricUsagePercentage(capacity_map_array, ingested[2])
           /\ ud[2].namespace = "s1"

\* C15: a node record carries the node_name of the first usage record ingested
\* for its node_id, whatever node_name later records of that node_id carry.
C15_NodeNameFromFirstRecord ==
    \A n \in 1..Len(node_id_wise_reponse) :
        LET hits == { i \in 1..Len(ingested) :
                        ingested[i].node_id = node_id_wise_reponse[n].node_id }
        IN  /\ hits # {}
            /\ node_id_wise_reponse[n].node_name
                 = ingested[CHOOSE i \in hits : \A j \in hits : i <= j].node_name

\* C15 witness: node n1 was first observed as node-a and then again as node-b;
\* its record still says node-a.
C15_Witness ==
    /\ Len(ingested) >= 2
    /\ ingested[1].node_id = "n1" /\ ingested[1].node_name = "node-a"
    /\ ingested[2].node_id = "n1" /\ ingested[2].node_name = "node-b"
    /\ node_id_wise_reponse[1].node_id = "n1"
    /\ node_id_wise_reponse[1].node_name = "node-a"

\* C17: capacity_map_array is left alone by every step taken once usage
\* ingestion has begun (fetch, ingest, merge, halt, report); while capacity is
\* loading it changes only by a successful page's records being appended, so
\* that it always holds the records served so far in page order.
C17_CapacityIndexFrame ==
    [][ /\ (UsageBegun \/ pc \notin CapacityPositions) =>
              capacity_map_array' = capacity_map_array
        /\ pc = "save_capacity_data" => capacity_map_array' = capacity_map_array
        /\ pc = "capacity_response" =>
              LET page == IF response.status = STATUS_OK THEN response.response ELSE <<>>
              IN  /\ Len(capacity_map_array') = Len(capacity_map_array) + Len(page)
                  /\ \A i \in 1..Len(capacity_map_array) :
                        capacity_map_array'[i] = capacity_map_array[i]
                  /\ \A i \in 1..Len(page) :
                        capacity_map_array'[Len(capacity_map_array) + i] = page[i]
        /\ capacity_map_array' = SubSeq(CapData, 1, Len(capacity_map_array'))
      ]_vars

\* C17 witness: the index was built from two non-empty capacity pages and the
\* usage loop has since fetched, ingested, merged and ended; the index is as
\* the capacity loop left it.
C17_Witness ==
    /\ pc = "final_response"
    /\ cap_fetches = 2
    /\ capacity_map_array = CapData
    /\ Len(ingested) >= 2
    /\ \E n \in 1..Len(node_id_wise_reponse) :
          Len(node_id_wise_reponse[n].utilization_detail) < Len(ingested)

-----------------------------------------------------------------------------
(* Termination of the pagination loops *)

\* C16: with a server that at some page returns a null next_token or a failure
\* (MaxPages at the latest), the run is eventually past both pagination loops,
\* the usage loop being entered only when the capacity loop is left; and the
\* loops themselves never stop short: a successful page with a next_token
\* leads back to the loop head, and at the loop head a fetch can always be
\* issued.
C16_LoopsTerminate ==
    /\ <>(pc \notin (CapacityPositions \cup UsagePositions))
    /\ [](pc = "save_capacity_data" => ENABLED SaveCapacityPost)
    /\ [](pc = "request_openshift_report_api" => ENABLED ReportPost)
    /\ [][ /\ ( /\ pc = "capacity_response"
                /\ response.status = STATUS_OK
                /\ response.next_token # None ) => pc' = "save_capacity_data"
           /\ ( /\ pc = "for_result"
                /\ idx > Len(response.response)
                /\ response.next_token # None ) => pc' = "request_openshift_report_api"
         ]_vars

\* C16 witness: both loops went on for as many pages as the server served with
\* a next_token, MaxPages fetches each, and the run is done.
C16_Witness ==
    /\ pc = "done"
    /\ cap_fetches = MaxPages
    /\ usage_fetches = MaxPages

====
